---- MODULE Spec2Model ----
(***************************************************************************)
(* Model of myApp/app.py: a FastAPI application that runs the LinkedIn     *)
(* OAuth2 authorization-code flow and keeps the obtained tokens in the     *)
(* process-wide dict user_tokens.  Handlers are coroutines: a request      *)
(* suspends at every outbound HTTP call (await) and other requests may run *)
(* in between, so every handler is split at its awaits.                    *)
(***************************************************************************)
EXTENDS FiniteSets, Integers, Sequences, TLC

VARIABLES user_tokens, req, authenticated,
          LINKEDIN_CLIENT_ID, LINKEDIN_CLIENT_SECRET

vars == <<user_tokens, req, authenticated,
          LINKEDIN_CLIENT_ID, LINKEDIN_CLIENT_SECRET>>

config == <<LINKEDIN_CLIENT_ID, LINKEDIN_CLIENT_SECRET>>

(* Number of requests the server handles concurrently. *)
MaxReq == 1

Requests == 1..MaxReq

-----------------------------------------------------------------------------
(* Python values *)

PyNone == [type |-> "None"]

Str(s) == [type |-> "str", s |-> s]

EmptyDict == [type |-> "dict", keys |-> {}]

(* bool(v): None, "", {} and [] are falsy. *)
Truthy(v) ==
    CASE v.type = "None" -> FALSE
      [] v.type = "str"  -> v.s # ""
      [] v.type = "dict" -> v.keys # {}
      [] v.type = "list" -> v.items # <<>>
      [] OTHER -> TRUE

(* f"{v}" *)
Format(v) == IF v.type = "None" THEN "None" ELSE v.s

-----------------------------------------------------------------------------
(* Configuration and URLs *)

LINKEDIN_REDIRECT_URI == Str("http://localhost:8000/callback")

LINKEDIN_AUTH_URL == "https://www.linkedin.com/oauth/v2/authorization"

(* str.format on "...?author={{author_urn}}": the doubled braces are an      *)
(* escape, so the keyword argument is not substituted.                      *)
LINKEDIN_POSTS_URL_TEMPLATE_format(author_urn) ==
    "https://api.linkedin.com/v2/ugcPosts?author={author_urn}"

Config == {PyNone, Str("client")}

get_linkedin_auth_url ==
    IF ~Truthy(LINKEDIN_CLIENT_ID) \/ ~Truthy(LINKEDIN_REDIRECT_URI)
    THEN "/error"
    ELSE LINKEDIN_AUTH_URL
           \o "?response_type=code&state=some_random_string_to_prevent_csrf"

(* The guard that opens get_linkedin_access_token. *)
TokenExchangeConfigured ==
    /\ Truthy(LINKEDIN_CLIENT_ID)
    /\ Truthy(LINKEDIN_CLIENT_SECRET)
    /\ Truthy(LINKEDIN_REDIRECT_URI)

-----------------------------------------------------------------------------
(* What the provider can answer.  ok = FALSE stands for an HTTP error       *)
(* status or a transport failure, both caught inside the helpers.           *)

HttpError == [ok |-> FALSE, json |-> PyNone]

HttpOk(j) == [ok |-> TRUE, json |-> j]

Tokens == {"t1", "t2"}

UserIds == {"u1", "u2"}

TokenPayload(tok) ==
    [type |-> "dict", keys |-> {"access_token"}, access_token |-> tok]

TokenResponses ==
    {HttpError, HttpOk(EmptyDict),
     HttpOk([type |-> "dict", keys |-> {"expires_in"}]),
     HttpOk(TokenPayload(Str("")))}
      \cup {HttpOk(TokenPayload(Str(t))) : t \in Tokens}

ProfilePayload(id) == [type |-> "dict", keys |-> {"id"}, id |-> id]

ProfileResponses ==
    {HttpError, HttpOk(EmptyDict),
     HttpOk([type |-> "dict", keys |-> {"localizedFirstName"}])}
      \cup {HttpOk(ProfilePayload(Str(u))) : u \in UserIds}

CreateResponses ==
    {HttpError, HttpOk(EmptyDict),
     HttpOk([type |-> "dict", keys |-> {"id"}, id |-> Str("urn:li:share:1")])}

RawPost == [type |-> "dict", keys |-> {"specificContent", "created"},
            text |-> "hello", created |-> "1700000000"]

RawPostBare == [type |-> "dict", keys |-> {"id"}]

PostsResponses ==
    {HttpError, HttpOk(EmptyDict),
     HttpOk([type |-> "dict", keys |-> {"elements"},
             elements |-> <<RawPost, RawPostBare>>])}

(* Return values of the four helpers for a given provider answer. *)
get_linkedin_access_token_result(http) == IF http.ok THEN http.json ELSE PyNone

get_linkedin_profile_result(http) == IF http.ok THEN http.json ELSE PyNone

create_linkedin_post_result(http) == IF http.ok THEN http.json ELSE PyNone

FormatPost(post) ==
    [text |-> IF "specificContent" \in post.keys THEN post.text
              ELSE "No text available",
     author_name |-> "You",
     timestamp |-> IF "created" \in post.keys THEN post.created
                   ELSE "Unknown Date"]

fetch_linkedin_posts_result(http) ==
    IF ~http.ok THEN <<>>
    ELSE IF "elements" \in http.json.keys
         THEN [i \in 1..Len(http.json.elements) |->
                  FormatPost(http.json.elements[i])]
         ELSE <<>>

-----------------------------------------------------------------------------
(* user_tokens: a dict, which keeps its keys in insertion order.  It is     *)
(* modelled as the sequence of its items.                                   *)

Keys(d) == [i \in 1..Len(d) |-> d[i].user_id]

HasKey(d, k) == \E i \in 1..Len(d) : d[i].user_id = k

Lookup(d, k) == d[CHOOSE i \in 1..Len(d) : d[i].user_id = k]

(* d[k] = v: an existing key keeps its position, a new key goes last. *)
DictSet(d, k, v) ==
    IF HasKey(d, k)
    THEN [i \in 1..Len(d) |->
             IF d[i].user_id = k
             THEN [user_id |-> k, access_token |-> v.access_token,
                   author_urn |-> v.author_urn]
             ELSE d[i]]
    ELSE Append(d, [user_id |-> k, access_token |-> v.access_token,
                    author_urn |-> v.author_urn])

(* Faulty variant of AuthorUrn: another URN namespace. *)
AuthorUrn_member(user_id) == Str("urn:li:member:" \o Format(user_id))

(* f"urn:li:person:{user_id}" *)
AuthorUrn(user_id) == Str("urn:li:person:" \o Format(user_id))

-----------------------------------------------------------------------------
(* Handler return values *)

RedirectResponse(url, status_code) ==
    [type |-> "RedirectResponse", url |-> url, status_code |-> status_code]

DefaultRedirectStatus == 307

HTTPException(status_code, detail) ==
    [type |-> "HTTPException", status_code |-> status_code, detail |-> detail]

(* templates.TemplateResponse("index.html", context); keys lists the        *)
(* entries of the context besides "request".                                *)
TemplateResponse(keys, is_authenticated, auth_url, error, posts) ==
    [type |-> "TemplateResponse", status_code |-> 200, keys |-> keys,
     is_authenticated |-> is_authenticated, auth_url |-> auth_url,
     error |-> error, posts |-> posts]

LoginPrompt ==
    TemplateResponse({"is_authenticated", "auth_url"}, FALSE,
                     get_linkedin_auth_url, "", <<>>)

PostsPage(posts) ==
    TemplateResponse({"is_authenticated", "posts"}, TRUE, "", "", posts)

ErrorPage(error, posts) ==
    TemplateResponse({"error", "posts"}, FALSE, "", error, posts)

NoResponse == [type |-> "none"]

(* The status line the client receives.  Every handler hands its result     *)
(* back with `return`: a Response object is sent as it is, any other object *)
(* (here: an HTTPException that was returned, not raised) is serialised as  *)
(* the body of a response with the route's default status.                  *)
DefaultStatus == 200

http_status(ret) ==
    IF ret.type \in {"RedirectResponse", "TemplateResponse"}
    THEN ret.status_code
    ELSE DefaultStatus

-----------------------------------------------------------------------------
(* Requests *)

NoCalls == [token |-> 0, profile |-> 0, create |-> 0, posts |-> 0]

NoArgs == [access_token |-> PyNone, author_urn |-> PyNone]

Idle ==
    [route |-> "none", pc |-> "idle",
     code |-> PyNone, error |-> PyNone, state |-> PyNone,
     post_content |-> "",
     access_token |-> PyNone, author_urn |-> PyNone,
     token_data |-> PyNone, profile_data |-> PyNone,
     post_created |-> PyNone, posts |-> <<>>,
     calls |-> NoCalls, create_args |-> NoArgs, posts_args |-> NoArgs,
     fetch_url |-> "", stored |-> PyNone, branch |-> "",
     response |-> NoResponse]

Free(r) == req[r].pc \in {"idle", "done"}

Finish(rec, branch, ret) ==
    [rec EXCEPT !.pc = "done", !.branch = branch, !.response = ret]

Call(rec, endpoint) ==
    [rec EXCEPT !.calls[endpoint] = @ + 1]

Init ==
    /\ user_tokens = <<>>
    /\ req = [r \in Requests |-> Idle]
    /\ authenticated = <<>>
    /\ LINKEDIN_CLIENT_ID \in Config
    /\ LINKEDIN_CLIENT_SECRET \in Config

-----------------------------------------------------------------------------
(* The lines every authenticated handler shares:                            *)
(*   current_user_id = list(user_tokens.keys())[0]                          *)
(*   token_info = user_tokens[current_user_id]                              *)
(*   access_token = token_info.get("access_token")                          *)
(*   author_urn = token_info.get("author_urn")                              *)
current_user_id == Keys(user_tokens)[1]

(* Faulty variant of ReadSession: list(user_tokens.keys())[-1]. *)
ReadSession_last(rec) ==
    [rec EXCEPT !.access_token = user_tokens[Len(user_tokens)].access_token,
                !.author_urn = user_tokens[Len(user_tokens)].author_urn]

ReadSession(rec) ==
    [rec EXCEPT !.access_token = Lookup(user_tokens, current_user_id).access_token,
                !.author_urn = Lookup(user_tokens, current_user_id).author_urn]

(* posts = await fetch_linkedin_posts(access_token, author_urn), up to its  *)
(* await: the helper returns [] at once when an argument is falsy, and the  *)
(* handler then returns when_empty, its page for an empty list.             *)
fetch_linkedin_posts(rec, when_empty) ==
    IF ~Truthy(rec.access_token) \/ ~Truthy(rec.author_urn)
    THEN when_empty
    ELSE [Call(rec, "posts") EXCEPT
             !.pc = "fetch",
             !.fetch_url = LINKEDIN_POSTS_URL_TEMPLATE_format(rec.author_urn),
             !.posts_args = [access_token |-> rec.access_token,
                             author_urn |-> rec.author_urn]]

-----------------------------------------------------------------------------
(* GET / *)

read_root(r) ==
    /\ Free(r)
    /\ LET rec == [Idle EXCEPT !.route = "/"]
       IN req' = [req EXCEPT ![r] =
            IF user_tokens = <<>>
            THEN Finish(rec, "unauthenticated", LoginPrompt)
            ELSE LET loc == ReadSession(rec)
                 IN IF ~Truthy(loc.access_token) \/ ~Truthy(loc.author_urn)
                    THEN Finish(loc, "missing_token", LoginPrompt)
                    ELSE fetch_linkedin_posts(loc,
                             Finish(loc, "rendered", PostsPage(<<>>)))]
    /\ UNCHANGED <<user_tokens, authenticated, config>>

read_root_fetched(r) ==
    /\ req[r].route = "/"
    /\ req[r].pc = "fetch"
    /\ \E http \in PostsResponses :
         LET posts == fetch_linkedin_posts_result(http)
         IN req' = [req EXCEPT ![r] =
              Finish([req[r] EXCEPT !.posts = posts], "rendered",
                     PostsPage(posts))]
    /\ UNCHANGED <<user_tokens, authenticated, config>>

(* GET /login *)
login(r) ==
    /\ Free(r)
    /\ LET rec == [Idle EXCEPT !.route = "/login"]
           auth_url == get_linkedin_auth_url
       IN req' = [req EXCEPT ![r] =
            IF auth_url # "" /\ auth_url # "/error"
            THEN Finish(rec, "redirect",
                        RedirectResponse(auth_url, DefaultRedirectStatus))
            ELSE Finish(rec, "no_auth_url",
                        HTTPException(500, "Failed to generate LinkedIn auth URL."))]
    /\ UNCHANGED <<user_tokens, authenticated, config>>

-----------------------------------------------------------------------------
(* GET /callback *)

(* From `user_id = profile_data["id"]` to the return. *)
callback_store(rec) ==
    LET user_id == rec.profile_data.id
        author_urn == AuthorUrn(user_id)
    IN Finish([rec EXCEPT !.stored =
                  [type |-> "dict", keys |-> {"access_token", "author_urn"},
                   user_id |-> user_id,
                   access_token |-> rec.access_token,
                   author_urn |-> author_urn]],
              "stored", RedirectResponse("/", DefaultRedirectStatus))

(* From the return of get_linkedin_profile on. *)
callback_after_profile(rec, profile_data) ==
    LET got == [rec EXCEPT !.profile_data = profile_data]
    IN IF ~Truthy(profile_data) \/ "id" \notin profile_data.keys
       THEN Finish(got, "profile_failed",
                   HTTPException(500, "Failed to retrieve user profile from LinkedIn."))
       ELSE callback_store(got)

(* Faulty variant of get_linkedin_profile: without `if not access_token`. *)
get_linkedin_profile_unguarded(rec) ==
    [Call(rec, "profile") EXCEPT !.pc = "profile"]

(* get_linkedin_profile(access_token) up to its await. *)
get_linkedin_profile(rec) ==
    IF ~Truthy(rec.access_token)
    THEN callback_after_profile(rec, PyNone)
    ELSE [Call(rec, "profile") EXCEPT !.pc = "profile"]

(* From the return of get_linkedin_access_token on. *)
callback_after_token(rec, token_data) ==
    LET got == [rec EXCEPT !.token_data = token_data]
    IN IF ~Truthy(token_data) \/ "access_token" \notin token_data.keys
       THEN Finish(got, "token_failed",
                   HTTPException(500, "Failed to retrieve access token from LinkedIn."))
       ELSE get_linkedin_profile(
                [got EXCEPT !.access_token = token_data.access_token])

(* get_linkedin_access_token(code) up to its await. *)
get_linkedin_access_token(rec) ==
    IF ~TokenExchangeConfigured
    THEN callback_after_token(rec, PyNone)
    ELSE [Call(rec, "token") EXCEPT !.pc = "token"]

(* Faulty variant of callback_entry: `state` is compared with the value that        *)
(* get_linkedin_auth_url sent.                                              *)
callback_entry_validating(code, error, state) ==
    LET rec == [Idle EXCEPT !.route = "/callback", !.code = code,
                            !.error = error, !.state = state]
    IN IF Truthy(error)
       THEN Finish(rec, "provider_error",
                   HTTPException(400, "LinkedIn authorization failed: "
                                        \o Format(error)))
       ELSE IF ~Truthy(code)
       THEN Finish(rec, "no_code",
                   HTTPException(400, "No authorization code received."))
       ELSE IF state # Str("some_random_string_to_prevent_csrf")
       THEN Finish(rec, "bad_state", HTTPException(400, "Invalid state."))
       ELSE get_linkedin_access_token(rec)

callback_entry(code, error, state) ==
    LET rec == [Idle EXCEPT !.route = "/callback", !.code = code,
                            !.error = error, !.state = state]
    IN IF Truthy(error)
       THEN Finish(rec, "provider_error",
                   HTTPException(400, "LinkedIn authorization failed: "
                                        \o Format(error)))
       ELSE IF ~Truthy(code)
       THEN Finish(rec, "no_code",
                   HTTPException(400, "No authorization code received."))
       ELSE get_linkedin_access_token(rec)

(* Faulty variant of StoreAfter: user_tokens = {user_id: {...}}, a new dict instead  *)
(* of an item assignment.                                                   *)
StoreAfter_rebind(d, rec) ==
    IF rec.branch = "stored"
    THEN DictSet(<<>>, rec.stored.user_id, rec.stored)
    ELSE d

(* user_tokens[user_id] = {...} *)
StoreAfter(d, rec) ==
    IF rec.branch = "stored"
    THEN DictSet(d, rec.stored.user_id, rec.stored)
    ELSE d

(* The assignment to user_tokens and the log line "User ... authenticated   *)
(* successfully." that follows it; authenticated lists the users so logged, *)
(* in the order of their first line.                                        *)
Commit(rec) ==
    IF rec.branch = "stored"
    THEN /\ user_tokens' = StoreAfter(user_tokens, rec)
         /\ authenticated' =
              IF \E i \in 1..Len(authenticated) :
                     authenticated[i] = rec.stored.user_id
              THEN authenticated
              ELSE Append(authenticated, rec.stored.user_id)
    ELSE UNCHANGED <<user_tokens, authenticated>>

QueryValues == {PyNone, Str("")}

Codes == QueryValues \cup {Str("code1")}

Errors == {PyNone, Str("access_denied")}

States == {PyNone, Str("some_random_string_to_prevent_csrf")}

callback(r) ==
    /\ Free(r)
    /\ \E code \in Codes, error \in Errors, state \in States :
         LET rec == callback_entry(code, error, state)
         IN /\ req' = [req EXCEPT ![r] = rec]
            /\ Commit(rec)
    /\ UNCHANGED config

callback_token(r) ==
    /\ req[r].route = "/callback"
    /\ req[r].pc = "token"
    /\ \E http \in TokenResponses :
         LET rec == callback_after_token(req[r],
                        get_linkedin_access_token_result(http))
         IN /\ req' = [req EXCEPT ![r] = rec]
            /\ Commit(rec)
    /\ UNCHANGED config

callback_profile(r) ==
    /\ req[r].route = "/callback"
    /\ req[r].pc = "profile"
    /\ \E http \in ProfileResponses :
         LET rec == callback_after_profile(req[r],
                        get_linkedin_profile_result(http))
         IN /\ req' = [req EXCEPT ![r] = rec]
            /\ Commit(rec)
    /\ UNCHANGED config

-----------------------------------------------------------------------------
(* POST /create_post *)

PostContents == {"", "hello"}

(* From the return of create_linkedin_post on. *)
(* Faulty variant of create_post_after_create: the error page is rendered without   *)
(* fetching the posts again.                                                *)
create_post_after_create_nofetch(rec, post_created) ==
    LET got == [rec EXCEPT !.post_created = post_created]
    IN IF Truthy(post_created)
       THEN Finish(got, "created", RedirectResponse("/", 303))
       ELSE Finish(got, "create_failed",
                   ErrorPage("Failed to create post.", <<>>))

(* Faulty variant of create_post_after_create: a failed create is tried once more.  *)
create_post_after_create_retry(rec, post_created) ==
    LET got == [rec EXCEPT !.post_created = post_created]
    IN IF Truthy(post_created)
       THEN Finish(got, "created", RedirectResponse("/", 303))
       ELSE IF got.calls.create < 2
       THEN [Call(got, "create") EXCEPT !.pc = "create"]
       ELSE fetch_linkedin_posts(got,
                Finish(got, "create_failed",
                       ErrorPage("Failed to create post.", <<>>)))

create_post_after_create(rec, post_created) ==
    LET got == [rec EXCEPT !.post_created = post_created]
    IN IF Truthy(post_created)
       THEN Finish(got, "created", RedirectResponse("/", 303))
       ELSE fetch_linkedin_posts(got,
                Finish(got, "create_failed",
                       ErrorPage("Failed to create post.", <<>>)))

(* create_linkedin_post(access_token, author_urn, post_content) up to its   *)
(* await.                                                                   *)
create_linkedin_post(rec) ==
    IF ~Truthy(rec.access_token) \/ ~Truthy(rec.author_urn)
    THEN create_post_after_create(rec, PyNone)
    ELSE [Call(rec, "create") EXCEPT
             !.pc = "create",
             !.create_args = [access_token |-> rec.access_token,
                              author_urn |-> rec.author_urn]]

(* Faulty variant of create_post_entry: an unauthenticated submit is sent to "/".   *)
create_post_entry_home(post_content) ==
    LET rec == [Idle EXCEPT !.route = "/create_post",
                            !.post_content = post_content]
    IN IF post_content = ""
       THEN Finish(rec, "empty_content",
                   ErrorPage("Post content cannot be empty.", <<>>))
       ELSE IF user_tokens = <<>>
       THEN Finish(rec, "unauthenticated",
                   RedirectResponse("/", DefaultRedirectStatus))
       ELSE LET loc == ReadSession(rec)
            IN IF ~Truthy(loc.access_token) \/ ~Truthy(loc.author_urn)
               THEN Finish(loc, "missing_token",
                           RedirectResponse("/login", DefaultRedirectStatus))
               ELSE create_linkedin_post(loc)

create_post_entry(post_content) ==
    LET rec == [Idle EXCEPT !.route = "/create_post",
                            !.post_content = post_content]
    IN IF post_content = ""
       THEN Finish(rec, "empty_content",
                   ErrorPage("Post content cannot be empty.", <<>>))
       ELSE IF user_tokens = <<>>
       THEN Finish(rec, "unauthenticated",
                   RedirectResponse("/login", DefaultRedirectStatus))
       ELSE LET loc == ReadSession(rec)
            IN IF ~Truthy(loc.access_token) \/ ~Truthy(loc.author_urn)
               THEN Finish(loc, "missing_token",
                           RedirectResponse("/login", DefaultRedirectStatus))
               ELSE create_linkedin_post(loc)

create_post(r) ==
    /\ Free(r)
    /\ \E post_content \in PostContents :
         req' = [req EXCEPT ![r] = create_post_entry(post_content)]
    /\ UNCHANGED <<user_tokens, authenticated, config>>

create_post_created(r) ==
    /\ req[r].route = "/create_post"
    /\ req[r].pc = "create"
    /\ \E http \in CreateResponses :
         req' = [req EXCEPT ![r] =
            create_post_after_create(req[r], create_linkedin_post_result(http))]
    /\ UNCHANGED <<user_tokens, authenticated, config>>

create_post_fetched(r) ==
    /\ req[r].route = "/create_post"
    /\ req[r].pc = "fetch"
    /\ \E http \in PostsResponses :
         LET posts == fetch_linkedin_posts_result(http)
         IN req' = [req EXCEPT ![r] =
              Finish([req[r] EXCEPT !.posts = posts], "create_failed",
                     ErrorPage("Failed to create post.", posts))]
    /\ UNCHANGED <<user_tokens, authenticated, config>>

-----------------------------------------------------------------------------
(* GET /refresh_posts *)

refresh_posts_route(r) ==
    /\ Free(r)
    /\ LET rec == [Idle EXCEPT !.route = "/refresh_posts"]
       IN req' = [req EXCEPT ![r] =
            IF user_tokens = <<>>
            THEN Finish(rec, "unauthenticated",
                        RedirectResponse("/login", DefaultRedirectStatus))
            ELSE LET loc == ReadSession(rec)
                 IN IF ~Truthy(loc.access_token) \/ ~Truthy(loc.author_urn)
                    THEN Finish(loc, "missing_token",
                                RedirectResponse("/login", DefaultRedirectStatus))
                    ELSE fetch_linkedin_posts(loc,
                             Finish(loc, "rendered", PostsPage(<<>>)))]
    /\ UNCHANGED <<user_tokens, authenticated, config>>

refresh_posts_fetched(r) ==
    /\ req[r].route = "/refresh_posts"
    /\ req[r].pc = "fetch"
    /\ \E http \in PostsResponses :
         LET posts == fetch_linkedin_posts_result(http)
         IN req' = [req EXCEPT ![r] =
              Finish([req[r] EXCEPT !.posts = posts], "rendered",
                     PostsPage(posts))]
    /\ UNCHANGED <<user_tokens, authenticated, config>>

-----------------------------------------------------------------------------

Next ==
    \E r \in Requests :
        \/ read_root(r)
        \/ read_root_fetched(r)
        \/ login(r)
        \/ callback(r)
        \/ callback_token(r)
        \/ callback_profile(r)
        \/ create_post(r)
        \/ create_post_created(r)
        \/ create_post_fetched(r)
        \/ refresh_posts_route(r)
        \/ refresh_posts_fetched(r)

Spec == Init /\ [][Next]_vars

-----------------------------------------------------------------------------
(* Vocabulary of the properties *)

Done(r, route) == req[r].route = route /\ req[r].pc = "done"

(* Request r is handled, or resumed, in this step. *)
Stepped(r) == req'[r] # req[r]

Started(r, route) == Free(r) /\ Stepped(r) /\ req'[r].route = route

IsRedirectTo(ret, url) == ret.type = "RedirectResponse" /\ ret.url = url

TokenObtained(rec) ==
    /\ rec.calls.token = 1
    /\ rec.token_data.type = "dict"
    /\ "access_token" \in rec.token_data.keys

ProfileObtained(rec) ==
    /\ rec.calls.profile = 1
    /\ rec.profile_data.type = "dict"
    /\ "id" \in rec.profile_data.keys

Range(f) == {f[i] : i \in DOMAIN f}

-----------------------------------------------------------------------------
(* C1: when a /callback that carries a code gets an access token from the   *)
(* token exchange and a profile with id X from the profile fetch, then      *)
(* right after the handler returns user_tokens maps X to a record whose     *)
(* author_urn is "urn:li:person:" followed by X and whose access_token is   *)
(* the token just obtained, and the response is a redirect to "/".          *)
C1_CallbackStoresSession ==
    [][\A r \in Requests :
          (/\ Stepped(r)
           /\ req'[r].route = "/callback"
           /\ req'[r].pc = "done"
           /\ Truthy(req'[r].code)
           /\ TokenObtained(req'[r])
           /\ ProfileObtained(req'[r]))
          => LET X == req'[r].profile_data.id
             IN /\ HasKey(user_tokens', X)
                /\ Lookup(user_tokens', X).author_urn
                     = Str("urn:li:person:" \o X.s)
                /\ Lookup(user_tokens', X).access_token
                     = req'[r].token_data.access_token
                /\ IsRedirectTo(req'[r].response, "/")]_vars

C1_Witness ==
    \E r \in Requests :
        /\ Done(r, "/callback")
        /\ Truthy(req[r].code)
        /\ TokenObtained(req[r])
        /\ ProfileObtained(req[r])
        /\ HasKey(user_tokens, req[r].profile_data.id)
        /\ IsRedirectTo(req[r].response, "/")

(* C2: a /callback with `error` set is answered with HTTP status 400,       *)
(* whether or not `code` is present, and no token exchange is attempted.    *)
C2_ErrorGives400 ==
    \A r \in Requests :
        (Done(r, "/callback") /\ Truthy(req[r].error))
        => /\ http_status(req[r].response) = 400
           /\ req[r].calls.token = 0

(* C3 as stated: with an empty token store every POST /create_post, the     *)
(* empty post_content included, redirects to /login and makes no            *)
(* post-creation call.                                                      *)
C3_Original ==
    \A r \in Requests :
        (user_tokens = <<>> /\ req[r].route = "/create_post")
        => /\ req[r].pc = "done"
           /\ IsRedirectTo(req[r].response, "/login")
           /\ req[r].calls.create = 0

(* C3 amended: with an empty token store a POST /create_post never makes a  *)
(* post-creation call; it redirects to /login when post_content is          *)
(* non-empty, and re-renders the page with "Post content cannot be empty."  *)
(* when post_content is empty.                                              *)
C3_UnauthenticatedCreate ==
    \A r \in Requests :
        (user_tokens = <<>> /\ req[r].route = "/create_post")
        => /\ req[r].pc = "done"
           /\ req[r].calls.create = 0
           /\ req[r].post_content # ""
                => IsRedirectTo(req[r].response, "/login")
           /\ req[r].post_content = ""
                => /\ req[r].response.type = "TemplateResponse"
                   /\ req[r].response.error = "Post content cannot be empty."
                   /\ req[r].response.posts = <<>>

C3_Witness ==
    \E r \in Requests :
        /\ user_tokens = <<>>
        /\ Done(r, "/create_post")
        /\ req[r].post_content # ""
        /\ IsRedirectTo(req[r].response, "/login")

C5_CallbackFailureStatus ==
    \A r \in Requests :
        (Done(r, "/callback") /\ ~Truthy(req[r].error))
        => /\ ~Truthy(req[r].code) => http_status(req[r].response) = 400
           /\ (Truthy(req[r].code) /\ ~TokenObtained(req[r]))
                => /\ http_status(req[r].response) = 500
                   /\ req[r].calls.profile = 0
           /\ (Truthy(req[r].code) /\ TokenObtained(req[r])
                 /\ ~ProfileObtained(req[r]))
                => http_status(req[r].response) = 500

(* C6: the first entry of user_tokens is the user whose first successful    *)
(* callback came earliest and no later authentication, of that user or of   *)
(* another, changes which entry is first; every /, /create_post and         *)
(* /refresh_posts that runs authenticated issues its call with the access   *)
(* token and author URN of that first entry.                                *)
C6_FirstSessionIsUsed ==
    [][/\ user_tokens' # <<>>
            => user_tokens'[1].user_id = authenticated'[1]
       /\ user_tokens # <<>>
            => /\ user_tokens' # <<>>
               /\ user_tokens'[1].user_id = user_tokens[1].user_id
       /\ \A r \in Requests :
            (/\ user_tokens # <<>>
             /\ \/ Started(r, "/")
                \/ Started(r, "/refresh_posts")
                \/ Started(r, "/create_post") /\ req'[r].post_content # "")
            => LET args == IF req'[r].route = "/create_post"
                           THEN req'[r].create_args
                           ELSE req'[r].posts_args
               IN /\ req'[r].calls.posts + req'[r].calls.create = 1
                  /\ args.access_token = user_tokens[1].access_token
                  /\ args.author_urn = user_tokens[1].author_urn]_vars

C6_Witness ==
    /\ Len(user_tokens) = 2
    /\ \E r \in Requests :
          /\ req[r].route \in {"/", "/create_post", "/refresh_posts"}
          /\ req[r].calls.posts + req[r].calls.create >= 1
          /\ req[r].posts_args.author_urn = user_tokens[1].author_urn
               \/ req[r].create_args.author_urn = user_tokens[1].author_urn
    /\ user_tokens[1].user_id = authenticated[1]

(* C7: the keys of user_tokens are users whose /callback completed          *)
(* successfully; user_tokens changes only in the step in which a /callback  *)
(* returns after a successful token exchange and profile fetch; no step     *)
(* removes a key, so a non-empty store stays non-empty.                     *)
C7_StoreOnlyGrows ==
    [][/\ Range(Keys(user_tokens')) \subseteq Range(authenticated')
       /\ Range(Keys(user_tokens)) \subseteq Range(Keys(user_tokens'))
       /\ Len(user_tokens') >= Len(user_tokens)
       /\ user_tokens' # user_tokens
            => \E r \in Requests :
                  /\ req[r].route = "/callback"
                  /\ req[r].pc = "profile"
                  /\ req'[r].pc = "done"
                  /\ TokenObtained(req'[r])
                  /\ ProfileObtained(req'[r])
                  /\ IsRedirectTo(req'[r].response, "/")]_vars

C7_Witness ==
    /\ Len(user_tokens) = 2
    /\ \E r \in Requests :
          Done(r, "/callback") /\ req[r].response.type = "HTTPException"

(* C8: a request issues at most one call to each outbound endpoint: token   *)
(* exchange, profile fetch, post creation and posts listing; a failed call  *)
(* is not repeated.                                                         *)
C8_NoRetries ==
    \A r \in Requests :
        /\ req[r].calls.token <= 1
        /\ req[r].calls.profile <= 1
        /\ req[r].calls.create <= 1
        /\ req[r].calls.posts <= 1

C8_Witness ==
    \E r \in Requests :
        /\ Done(r, "/create_post")
        /\ req[r].calls.create = 1
        /\ req[r].post_created = PyNone
        /\ req[r].response.error = "Failed to create post."

(* A whole /callback run on given provider answers. *)
CallbackRun(code, error, state, token_data, profile_data) ==
    LET r0 == callback_entry(code, error, state)
        r1 == IF r0.pc = "token"
              THEN callback_after_token(r0, token_data) ELSE r0
        r2 == IF r1.pc = "profile"
              THEN callback_after_profile(r1, profile_data) ELSE r1
    IN r2

(* C9: `state` is never validated: whenever a /callback returns, the same   *)
(* request with any other value of `state` (or none), run from the same     *)
(* user_tokens against the same provider answers, gets the same response    *)
(* and leaves the same user_tokens.                                         *)
C9_StateIgnored ==
    [][\A r \in Requests :
          (Stepped(r) /\ req'[r].route = "/callback" /\ req'[r].pc = "done")
          => \A state \in States :
               LET twin == CallbackRun(req'[r].code, req'[r].error, state,
                                       req'[r].token_data,
                                       req'[r].profile_data)
               IN /\ twin.pc = "done"
                  /\ twin.response = req'[r].response
                  /\ StoreAfter(user_tokens, twin) = user_tokens']_vars

C9_Witness ==
    \E r \in Requests :
        /\ Done(r, "/callback")
        /\ req[r].state = PyNone
        /\ req[r].branch = "stored"
        /\ HasKey(user_tokens, req[r].stored.user_id)

(* C10: every record of user_tokens has a non-empty access_token and an     *)
(* author_urn that is non-empty and equal to "urn:li:person:" followed by   *)
(* its key; no request takes a "missing access token or author URN"         *)
(* branch, and every / and /refresh_posts that found the store non-empty    *)
(* reaches the posts fetch.                                                 *)
C10_RecordsComplete ==
    /\ \A i \in 1..Len(user_tokens) :
          /\ Truthy(user_tokens[i].access_token)
          /\ Truthy(user_tokens[i].author_urn)
          /\ user_tokens[i].author_urn
               = Str("urn:li:person:" \o user_tokens[i].user_id.s)
    /\ \A r \in Requests :
          /\ req[r].branch # "missing_token"
          /\ (req[r].route \in {"/", "/refresh_posts"}
                /\ req[r].branch # "unauthenticated")
             => req[r].calls.posts = 1

C10_Witness ==
    /\ user_tokens # <<>>
    /\ \E r \in Requests :
          Done(r, "/refresh_posts") /\ req[r].response.is_authenticated

====
